---- MODULE Spec2Model ----
(***************************************************************************)
(* Model of state_election_scraper.py: the URL canonicalizer               *)
(* (canonicalize_url), the link discoverer (discover_state_pages) and the  *)
(* command-line driver (main) with its HTTP fetches (get_soup).            *)
(*                                                                         *)
(* Python strings are sequences of one-character strings, so that prefix,  *)
(* suffix, substring and regular-expression tests are computed character   *)
(* by character as the code computes them.  Optional[str] is a record      *)
(* [isNone, str].                                                          *)
(***************************************************************************)
EXTENDS Integers, Sequences, FiniteSets, TLC

VARIABLES
    \* --- canonicalize_url applied as a function (SpecCanon) ---
    u,          \* the raw href handed to canonicalize_url
    y,          \* the requested year
    lib,        \* which urlunsplit the interpreter ships: "legacy" | "fixed"
    cstep,      \* "input" | "called" | "resubmitted"
    out,        \* canonicalize_url(u, y)
    out2,       \* canonicalize_url(out, y), once re-submitted
    race,       \* the race label line 78 computes for out
    \* --- the dedup pass applied as a function (SpecDedup) ---
    dfound,     \* the accumulated list handed to the dedup pass
    dret,       \* what the pass returns
    dstep,      \* "input" | "returned"
    \* --- a run of main (Spec) ---
    pc,         \* "start" | "get" | "loop" | "pages" | "done" | "error" ("idle": no run)
    args,       \* [state_url, year]: the parsed command line
    caller,     \* who called get_soup: "discover" | "direct" | "first"
    requests,   \* the URLs requested so far, in order
    inflight,   \* number of HTTP requests in flight
    anchors,    \* soup.select("a[href]") of the overview page
    idx,        \* position of the for loop of discover_state_pages
    found,      \* the list accumulated by that loop
    pages,      \* what discover_state_pages returned to main
    printed,    \* the entries main printed
    err         \* "none" | "HTTPError" | "NameError"

canonVars == <<u, y, lib, cstep, out, out2, race>>
dedupVars == <<dfound, dret, dstep>>
mainVars  == <<pc, args, caller, requests, inflight, anchors, idx, found,
               pages, printed, err>>
vars == <<u, y, lib, cstep, out, out2, race, dfound, dret, dstep, pc, args, caller,
          requests, inflight, anchors, idx, found, pages, printed, err>>

-----------------------------------------------------------------------------
(* Optional[str] *)

None == [isNone |-> TRUE, str |-> <<>>]

Some(s) == [isNone |-> FALSE, str |-> s]

-----------------------------------------------------------------------------
(* Python str operations *)

LowerLetters ==
    <<"a","b","c","d","e","f","g","h","i","j","k","l","m","n","o","p","q","r","s","t","u","v","w","x","y","z">>

UpperLetters ==
    <<"A","B","C","D","E","F","G","H","I","J","K","L","M","N","O","P","Q","R","S","T","U","V","W","X","Y","Z">>

DigitChars == <<"0","1","2","3","4","5","6","7","8","9">>

Range(s) == {s[k] : k \in 1..Len(s)}

IsDigit(c) == c \in Range(DigitChars)

IsAlpha(c) == c \in Range(LowerLetters) \cup Range(UpperLetters)

\* str.lower(), one character
LowerChar(c) ==
    IF c \in Range(UpperLetters)
    THEN LowerLetters[CHOOSE k \in 1..Len(UpperLetters) : UpperLetters[k] = c]
    ELSE c

\* str.lower()
Lower(s) == [k \in 1..Len(s) |-> LowerChar(s[k])]

\* s.startswith(p)
StartsWith(s, p) == Len(s) >= Len(p) /\ SubSeq(s, 1, Len(p)) = p

\* s.endswith(p)
EndsWith(s, p) == Len(s) >= Len(p) /\ SubSeq(s, Len(s) - Len(p) + 1, Len(s)) = p

\* p in s
Contains(s, p) ==
    \E i \in 1..(Len(s) - Len(p) + 1) : SubSeq(s, i, i + Len(p) - 1) = p

\* s.find(c) + 1 for a single character c: the first position of c, 0 if none
Find(s, c) ==
    IF \E k \in 1..Len(s) : s[k] = c
    THEN CHOOSE k \in 1..Len(s) : s[k] = c /\ \A j \in 1..(k - 1) : s[j] # c
    ELSE 0

\* the first position >= from of a character of cs, Len(s)+1 if none
FindAny(s, cs, from) ==
    IF \E k \in from..Len(s) : s[k] \in cs
    THEN CHOOSE k \in from..Len(s) :
            s[k] \in cs /\ \A j \in from..(k - 1) : s[j] \notin cs
    ELSE Len(s) + 1

\* s.rstrip("/")
RECURSIVE RStripSlash(_)
RStripSlash(s) ==
    IF s # <<>> /\ s[Len(s)] = "/" THEN RStripSlash(SubSeq(s, 1, Len(s) - 1)) ELSE s

\* str(n) for n >= 0
RECURSIVE Str(_)
Str(n) ==
    IF n < 10 THEN <<DigitChars[n + 1]>>
    ELSE Str(n \div 10) \o <<DigitChars[(n % 10) + 1]>>

\* s.replace("_", " ")
UnderscoresToSpaces(s) == [k \in 1..Len(s) |-> IF s[k] = "_" THEN " " ELSE s[k]]

-----------------------------------------------------------------------------
(* Module constants *)

BASE ==
    <<"h","t","t","p","s",":","/","/","b","a","l","l","o","t","p","e","d","i","a",".","o","r","g","/">>

RACE_LABEL == "U.S. Senate"

OVERVIEW_TEMPLATE(year) ==
    <<"U","n","i","t","e","d","_","S","t","a","t","e","s","_","S","e","n","a","t","e","_","e","l","e","c","t","i","o","n","s",",","_">>
        \o Str(year)

S_http == <<"h","t","t","p">>

S_https == <<"h","t","t","p","s">>

S_ftp == <<"f","t","p">>

\* the literals of CANON_STATE_URL
RE_head == <<"/","U","n","i","t","e","d","_","S","t","a","t","e","s","_","S","e","n","a","t","e","_">>

RE_special == <<"s","p","e","c","i","a","l","_">>

RE_election_in == <<"e","l","e","c","t","i","o","n","_","i","n","_">>

\* re.compile(r"/United_States_Senate_(?:special_)?election_in_[^,]+,_\d{4}$")
\* .search(s): some position starts the literal head, with or without
\* "special_", followed by "election_in_"; [^,]+ then has to run, comma-free
\* and non-empty, up to the ",_dddd" that ends the string.  (urlsplit has
\* removed every newline, so $ is the end of the string.)
CANON_STATE_URL(s) ==
    \E i \in 1..Len(s) :
        \E pre \in {RE_head \o RE_election_in, RE_head \o RE_special \o RE_election_in} :
            /\ i + Len(pre) - 1 <= Len(s)
            /\ SubSeq(s, i, i + Len(pre) - 1) = pre
            /\ i + Len(pre) <= Len(s) - 6
            /\ \A k \in (i + Len(pre))..(Len(s) - 6) : s[k] # ","
            /\ s[Len(s) - 5] = ","
            /\ s[Len(s) - 4] = "_"
            /\ \A k \in (Len(s) - 3)..Len(s) : IsDigit(s[k])

\* the tuple of line 56
DENYLIST ==
    { <<"/","i","n","d","e","x",".","p","h","p","?">>,
      <<"/","a","m","p">>,
      <<":","a","m","p">>,
      <<"p","r","i","n","t","a","b","l","e">>,
      <<"m","o","b","i","l","e","a","c","t","i","o","n">> }

-----------------------------------------------------------------------------
(* urllib.parse, on strings without whitespace, control characters,        *)
(* brackets or non-ASCII characters (the inputs for which urlsplit neither *)
(* strips anything nor raises ValueError)                                  *)

scheme_chars == Range(LowerLetters) \cup Range(UpperLetters) \cup Range(DigitChars) \cup {"+", "-", "."}

\* the members of urllib.parse.uses_netloc a string of this model can name
uses_netloc == {S_http, S_https, S_ftp}

\* urlsplit: the scheme is what precedes the first ":", when that is a letter
\* followed by scheme characters; it is lowercased
SplitScheme(url) ==
    LET i == Find(url, ":")
    IN  IF /\ i > 1
           /\ IsAlpha(url[1])
           /\ \A k \in 1..(i - 1) : url[k] \in scheme_chars
        THEN [scheme |-> Lower(SubSeq(url, 1, i - 1)), rest |-> SubSeq(url, i + 1, Len(url))]
        ELSE [scheme |-> <<>>, rest |-> url]

\* _splitnetloc(url, 2), the netloc ending at position d - 1
NetlocUpTo(r, d) == [netloc |-> SubSeq(r, 3, d - 1), rest |-> SubSeq(r, d, Len(r))]

\* urlsplit: after "//" the netloc runs up to the first of "/", "?", "#"
SplitNetloc(r) ==
    IF Len(r) >= 2 /\ r[1] = "/" /\ r[2] = "/"
    THEN NetlocUpTo(r, FindAny(r, {"/", "?", "#"}, 3))
    ELSE [netloc |-> <<>>, rest |-> r]

\* s.split(c, 1) at position k of the first c (k = 0: no c in s)
CutAt(s, k) ==
    IF k > 0
    THEN [head |-> SubSeq(s, 1, k - 1), tail |-> SubSeq(s, k + 1, Len(s))]
    ELSE [head |-> s, tail |-> <<>>]

Cut(s, c) == CutAt(s, Find(s, c))

Split4(scheme, netloc, d, fragment) ==
    [scheme |-> scheme, netloc |-> netloc, path |-> d.head,
     query |-> d.tail, fragment |-> fragment]

\* urlsplit: the query is what follows the first "?" of what is left
Split3(scheme, netloc, c) == Split4(scheme, netloc, Cut(c.head, "?"), c.tail)

\* urlsplit: the fragment is what follows the first "#"
Split2(scheme, b) == Split3(scheme, b.netloc, Cut(b.rest, "#"))

Split1(a) == Split2(a.scheme, SplitNetloc(a.rest))

\* urllib.parse.urlsplit(url)
urlsplit(url) == Split1(SplitScheme(url))

StartsDoubleSlash(url) == Len(url) >= 2 /\ url[1] = "/" /\ url[2] = "/"

\* urlunsplit: url = '//' + netloc + url, after a "/" is put before a
\* non-empty url that lacks one
WithAuthority(netloc, url) ==
    <<"/", "/">> \o netloc \o (IF url # <<>> /\ url[1] # "/" THEN <<"/">> \o url ELSE url)

\* urlunsplit up to Python 3.12.3: an empty netloc with a path that starts
\* "//" gets no "//" of its own
UnsplitLegacy(scheme, netloc, url) ==
    IF \/ netloc # <<>>
       \/ (scheme # <<>> /\ scheme \in uses_netloc /\ ~StartsDoubleSlash(url))
    THEN WithAuthority(netloc, url)
    ELSE url

\* urlunsplit of later interpreters: such a path keeps its slashes
UnsplitFixed(scheme, netloc, url) ==
    IF netloc # <<>> THEN WithAuthority(netloc, url)
    ELSE IF StartsDoubleSlash(url) THEN <<"/", "/">> \o url
    ELSE IF scheme # <<>> /\ scheme \in uses_netloc /\ (url = <<>> \/ url[1] = "/")
    THEN <<"/", "/">> \o url
    ELSE url

AddScheme(scheme, url) == IF scheme # <<>> THEN scheme \o <<":">> \o url ELSE url

AddQuery(url, query) == IF query # <<>> THEN url \o <<"?">> \o query ELSE url

AddFragment(url, fragment) == IF fragment # <<>> THEN url \o <<"#">> \o fragment ELSE url

\* urllib.parse.urlunsplit((scheme, netloc, path, query, fragment))
urlunsplit(p, which) ==
    AddFragment(
        AddQuery(
            AddScheme(p.scheme,
                      IF which = "legacy"
                      THEN UnsplitLegacy(p.scheme, p.netloc, p.path)
                      ELSE UnsplitFixed(p.scheme, p.netloc, p.path)),
            p.query),
        p.fragment)

-----------------------------------------------------------------------------
(* canonicalize_url *)

\* lines 46-50: None for a rejected href, else the href made absolute
Absolute(href) ==
    IF ~StartsWith(href, S_http)
    THEN IF StartsWith(href, <<"/">>) THEN Some(RStripSlash(BASE) \o href) ELSE None
    ELSE Some(href)

\* line 53: urlunsplit((parsed.scheme, parsed.netloc, parsed.path, "", ""))
CleanOf(parsed, which) ==
    urlunsplit([scheme |-> parsed.scheme, netloc |-> parsed.netloc,
                path |-> parsed.path, query |-> <<>>, fragment |-> <<>>], which)

\* lines 52-53
Clean(url, which) == CleanOf(urlsplit(url), which)

\* lines 55-56: any(x in low for x in (...)), low = clean.lower()
Denylisted(clean) == \E x \in DENYLIST : Contains(Lower(clean), x)

\* line 60 without the underscore of the f-string
YearSuffixNoUnderscore(clean, year) == EndsWith(clean, Str(year))

\* line 60: clean.endswith(f"_{year}")
YearSuffix(clean, year) == EndsWith(clean, <<"_">> \o Str(year))

\* line 62: return clean (low is line 55's lowercased copy)
AcceptedLow(clean, low) == Some(low)

Accepted(clean, low) == Some(clean)

\* lines 55-62
CheckClean(clean, year) ==
    IF Denylisted(clean) THEN None
    ELSE IF ~CANON_STATE_URL(clean) THEN None
    ELSE IF ~YearSuffix(clean, year) THEN None
    ELSE Accepted(clean, Lower(clean))

\* lines 46-62, abs being the outcome of lines 46-50
CheckAbsolute(abs, year, which) ==
    IF abs.isNone THEN None ELSE CheckClean(Clean(abs.str, which), year)

\* canonicalize_url(u, year), run by an interpreter whose urlunsplit is `which`
canonicalize_url(href, year, which) ==
    IF href = <<>> THEN None ELSE CheckAbsolute(Absolute(href), year, which)

\* line 78
RaceOf(full) ==
    IF Contains(full, <<"U","n","i","t","e","d","_","S","t","a","t","e","s","_","S","e","n","a","t","e","_","s","p","e","c","i","a","l","_","e","l","e","c","t","i","o","n","_","i","n","_">>)
    THEN "U.S. Senate (special)"
    ELSE "U.S. Senate"

-----------------------------------------------------------------------------
(* The hrefs and years canonicalize_url is applied to *)

P_Ohio2022 ==
    RE_head \o RE_election_in \o <<"O","h","i","o",",","_","2","0","2","2">>

P_Oklahoma2022 ==
    RE_head \o RE_special \o RE_election_in \o <<"O","k","l","a","h","o","m","a",",","_","2","0","2","2">>

P_Ohio2020 ==
    RE_head \o RE_election_in \o <<"O","h","i","o",",","_","2","0","2","0">>

HrefPrefixes ==
    { <<>>,                                                  \* site-relative
      <<"/","/","h">>,                                       \* protocol-relative
      <<"h","t","t","p",":","/","/","h">>,
      <<"h","t","t","p","s",":","/","/","h">>,
      <<"h","t","t","p","S",":","/","/","h">>,
      <<"H","T","T","P",":","/","/","h">>,
      <<"h","t","t","p","x",":","/","/","h">>,               \* scheme httpx
      <<"h","t","t","p">>,                                   \* bare text
      <<"h">>,                                               \* bare text
      <<"m","a","i","l","t","o",":">>,
      <<"j","a","v","a","s","c","r","i","p","t",":">>,
      <<"f","t","p",":","/","/","h">>,
      <<"h","t","t","p",":">>,                               \* no authority
      <<"h","t","t","p",":","/","/">>,                       \* empty authority
      <<"h","t","t","p",":","/","/","/">>,                   \* path starts //
      <<"h","t","t","p","s",":","/","/","h","/","x">>,       \* leading segment
      <<"h","t","t","p","s",":","/","/","h","/","A","M","P">>,
      <<"h","t","t","p","s",":","/","/","h",":","a","m","p">> }

HrefBodies ==
    { <<>>,
      P_Ohio2022,
      P_Oklahoma2022,
      P_Ohio2020,
      RE_head \o RE_election_in \o <<"O","h","i","o",",","_","2","0","2","2","2">>,
      RE_head \o RE_election_in \o <<"O","h","i","o",",","_","2","2">>,
      RE_head \o RE_election_in \o <<",","_","2","0","2","2">>,
      RE_head \o RE_election_in \o <<"P","r","i","n","t","a","b","l","e",",","_","2","0","2","2">>,
      RE_head \o RE_election_in \o <<"N","e","w",",","Y","o","r","k",",","_","2","0","2","2">>,
      Lower(P_Ohio2022),
      <<"/">> \o OVERVIEW_TEMPLATE(2022),
      <<"/","i","n","d","e","x",".","p","h","p">> }

HrefSuffixes ==
    { <<>>,
      <<"?","p","r","i","n","t","a","b","l","e","=","y","e","s">>,
      <<"?","a","c","t","i","o","n","=","e","d","i","t">>,
      <<"?","t","/","i","n","d","e","x",".","p","h","p","?","x">>,
      <<"#","m","o","b","i","l","e","a","c","t","i","o","n">>,
      <<"#","/","a","m","p">>,
      <<"/","a","m","p">>,
      <<"/">> }

Hrefs == {p \o b \o s : p \in HrefPrefixes, b \in HrefBodies, s \in HrefSuffixes}

Years == {22, 2020, 2022}

Libs == {"legacy", "fixed"}

-----------------------------------------------------------------------------
(* SpecCanon: canonicalize_url, and the classification of line 78, applied *)
(* to every href and year                                                  *)

IdleMain ==
    /\ pc = "idle" /\ args = [state_url |-> None, year |-> 0] /\ caller = "none"
    /\ requests = <<>> /\ inflight = 0 /\ anchors = <<>> /\ idx = 0
    /\ found = <<>> /\ pages = <<>> /\ printed = <<>> /\ err = "none"

IdleCanon ==
    /\ u = <<>> /\ y = 0 /\ cstep = "idle"
    /\ out = None /\ out2 = None /\ race = "unset"

IdleDedup == dfound = <<>> /\ dret = <<>> /\ dstep = "idle"

InitCanon ==
    /\ u \in Hrefs
    /\ y \in Years
    /\ lib \in Libs
    /\ cstep = "input"
    /\ out = None /\ out2 = None /\ race = "unset"
    /\ IdleDedup /\ IdleMain

\* full = canonicalize_url(href, year)
Canonicalize ==
    /\ cstep = "input"
    /\ out' = canonicalize_url(u, y, lib)
    /\ cstep' = "called"
    /\ UNCHANGED <<u, y, lib, out2, race>>
    /\ UNCHANGED dedupVars /\ UNCHANGED mainVars

\* an accepted URL handed to canonicalize_url again, for the same year
Recanonicalize ==
    /\ cstep = "called" /\ ~out.isNone
    /\ out2' = canonicalize_url(out.str, y, lib)
    /\ cstep' = "resubmitted"
    /\ UNCHANGED <<u, y, lib, out, race>>
    /\ UNCHANGED dedupVars /\ UNCHANGED mainVars

\* race = ... of line 78, for an accepted URL
Classify ==
    /\ cstep \in {"called", "resubmitted"} /\ ~out.isNone /\ race = "unset"
    /\ race' = RaceOf(out.str)
    /\ UNCHANGED <<u, y, lib, cstep, out, out2>>
    /\ UNCHANGED dedupVars /\ UNCHANGED mainVars

NextCanon == Canonicalize \/ Recanonicalize \/ Classify

SpecCanon == InitCanon /\ [][NextCanon]_vars

-----------------------------------------------------------------------------
(* discover_state_pages: the dedup pass of lines 81-87 *)

\* line 83 with the race left out of the key
KeyStateOnly(t) == <<t[1]>>

\* line 83: key = (state, race)
Key(t) == <<t[1], t[2]>>

\* lines 81-87, from position k on, with the seen set and the dedup list so far
RECURSIVE DedupFrom(_, _, _, _)
DedupFrom(f, k, seen, dedup) ==
    IF k > Len(f) THEN dedup
    ELSE IF Key(f[k]) \in seen
         THEN DedupFrom(f, k + 1, seen, dedup)
         ELSE DedupFrom(f, k + 1, seen \cup {Key(f[k])}, Append(dedup, f[k]))

\* lines 81-91: the list discover_state_pages returns for the accumulated f
Dedup(f) == DedupFrom(f, 1, {}, <<>>)

MaxFound == 4

\* (state, race, url) triples: two states, the two labels of line 78, and
\* two URLs per key
TriplePool ==
    {<<s, r, l>> : s \in {"Ohio", "Oklahoma"},
                   r \in {"U.S. Senate", "U.S. Senate (special)"},
                   l \in {"url1", "url2"}}

SeqsUpTo(S, n) == UNION {[1..k -> S] : k \in 0..n}

(* SpecDedup: the dedup pass applied to every accumulated list *)

InitDedup ==
    /\ dfound \in SeqsUpTo(TriplePool, MaxFound)
    /\ dret = <<>>
    /\ dstep = "input"
    /\ lib = "legacy"
    /\ IdleCanon /\ IdleMain

DedupPass ==
    /\ dstep = "input"
    /\ dret' = Dedup(dfound)
    /\ dstep' = "returned"
    /\ UNCHANGED dfound
    /\ UNCHANGED canonVars /\ UNCHANGED mainVars

NextDedup == DedupPass

SpecDedup == InitDedup /\ [][NextDedup]_vars

-----------------------------------------------------------------------------
(* nws and the state-name search of line 76 *)

IsSpace(c) == c \in {" ", "\t", "\n", "\r"}

RECURSIVE LStrip(_)
LStrip(s) == IF s # <<>> /\ IsSpace(s[1]) THEN LStrip(Tail(s)) ELSE s

RECURSIVE RStrip(_)
RStrip(s) ==
    IF s # <<>> /\ IsSpace(s[Len(s)]) THEN RStrip(SubSeq(s, 1, Len(s) - 1)) ELSE s

\* re.sub(r"\s+", " ", s)
RECURSIVE CollapseSpaces(_)
CollapseSpaces(s) ==
    IF s = <<>> THEN <<>>
    ELSE IF IsSpace(s[1]) THEN <<" ">> \o CollapseSpaces(LStrip(s))
    ELSE <<s[1]>> \o CollapseSpaces(Tail(s))

\* nws(s)
nws(s) == CollapseSpaces(RStrip(LStrip(s)))

\* re.search(r"_in_([^,]+),_" + re.escape(str(year)), full): group(1) of the
\* leftmost match, None without a match.  A match starts at an "_in_" that is
\* followed by at least one character up to the next comma, that comma being
\* followed by "_" and the digits of the year.
StateMatch(full, year) ==
    LET tail == <<",", "_">> \o Str(year)
        ok(i) ==
            /\ i + 3 <= Len(full)
            /\ SubSeq(full, i, i + 3) = <<"_", "i", "n", "_">>
            /\ LET c == FindAny(full, {","}, i + 4)
               IN  /\ c > i + 4
                   /\ c + Len(tail) - 1 <= Len(full)
                   /\ SubSeq(full, c, c + Len(tail) - 1) = tail
    IN  IF \E i \in 1..Len(full) : ok(i)
        THEN LET i == CHOOSE i \in 1..Len(full) : ok(i) /\ \A j \in 1..(i - 1) : ~ok(j)
             IN  Some(SubSeq(full, i + 4, FindAny(full, {","}, i + 4) - 1))
        ELSE None

-----------------------------------------------------------------------------
(* A run of main (Spec) *)

MaxAnchors == 3

PrintLimit == 5

\* the a[href] elements an overview page may hold
AnchorPool ==
    { [href |-> P_Ohio2022, text |-> <<"O","h","i","o">>],
      [href |-> P_Oklahoma2022 \o <<"?","a","c","t","i","o","n","=","e","d","i","t">>,
       text |-> <<" ","O","k","l","a","h","o","m","a"," "," ","(","s",")">>],
      [href |-> P_Ohio2022 \o <<"/","a","m","p">>, text |-> <<"O","h","i","o">>],
      [href |-> P_Ohio2020, text |-> <<"2","0","2","0">>],
      [href |-> <<"m","a","i","l","t","o",":","a">>, text |-> <<>>] }

Docs == SeqsUpTo(AnchorPool, MaxAnchors)

\* values of --state-url: absent, the empty string, two URLs
StateUrlArgs ==
    { None,
      Some(<<>>),
      Some(RStripSlash(BASE) \o P_Ohio2022),
      Some(<<"h","t","t","p","s",":","/","/","h","/","x">>) }

MainYears == {2020, 2022}

\* Python truth value of an Optional[str]
Truthy(o) == ~o.isNone /\ o.str # <<>>

\* line 111 as a test for None
StateUrlNotNone(a) == ~a.state_url.isNone

\* line 111: if args.state_url:
StateUrlGiven(a) == Truthy(a.state_url)

\* line 66: overview_url
OverviewUrl(year) == BASE \o OVERVIEW_TEMPLATE(year)

\* s[:n]
Take(s, n) == SubSeq(s, 1, IF Len(s) < n THEN Len(s) ELSE n)

Init ==
    /\ pc = "start"
    /\ args \in [state_url : StateUrlArgs, year : MainYears]
    /\ caller = "none"
    /\ requests = <<>> /\ inflight = 0
    /\ anchors = <<>> /\ idx = 0 /\ found = <<>>
    /\ pages = <<>> /\ printed = <<>> /\ err = "none"
    /\ lib \in Libs
    /\ IdleCanon /\ IdleDedup

\* lines 111-112 and 115, 66-67, 95, 33: main calls fetch_state_page for
\* --state-url, or discover_state_pages; either calls get_soup, which sends
\* the request
Main ==
    /\ pc = "start"
    /\ IF StateUrlGiven(args)
       THEN /\ requests' = Append(requests, args.state_url.str)
            /\ caller' = "direct"
       ELSE /\ requests' = Append(requests, OverviewUrl(args.year))
            /\ caller' = "discover"
    /\ inflight' = inflight + 1
    /\ pc' = "get"
    /\ UNCHANGED <<args, anchors, idx, found, pages, printed, err>>
    /\ UNCHANGED canonVars /\ UNCHANGED dedupVars

\* lines 33-36: the response arrives with a status raise_for_status accepts;
\* get_soup sleeps and returns the parsed page.  discover_state_pages goes on
\* to its loop (lines 69-70); fetch_state_page returns, and main with it
\* (lines 101, 113, 119).
GetSoupOk ==
    /\ pc = "get"
    /\ inflight' = inflight - 1
    /\ IF caller = "discover"
       THEN /\ \E doc \in Docs : anchors' = doc
            /\ idx' = 1
            /\ found' = <<>>
            /\ pc' = "loop"
       ELSE /\ pc' = "done"
            /\ UNCHANGED <<anchors, idx, found>>
    /\ UNCHANGED <<args, caller, requests, pages, printed, err>>
    /\ UNCHANGED canonVars /\ UNCHANGED dedupVars

\* lines 33-34 with a retry: the failed request is sent again
GetSoupRetry ==
    /\ pc = "get" /\ Len(requests) < 3
    /\ requests' = Append(requests, requests[Len(requests)])
    /\ UNCHANGED <<pc, args, caller, inflight, anchors, idx, found, pages, printed, err>>
    /\ UNCHANGED canonVars /\ UNCHANGED dedupVars

\* lines 33-34: SESSION.get raises (timeout, connection error) or
\* raise_for_status raises; nothing catches it, so the run ends
GetSoupFail ==
    /\ pc = "get"
    /\ inflight' = inflight - 1
    /\ err' = "HTTPError"
    /\ pc' = "error"
    /\ UNCHANGED <<args, caller, requests, anchors, idx, found, pages, printed>>
    /\ UNCHANGED canonVars /\ UNCHANGED dedupVars

\* lines 70-79, one anchor: a rejected href is skipped; for an accepted one
\* line 76 runs and line 77 then reads the names m and a, which nothing
\* defines: NameError, before anything is appended to found
DiscoverAnchor ==
    /\ pc = "loop" /\ idx <= Len(anchors)
    /\ IF canonicalize_url(anchors[idx].href, args.year, lib).isNone
       THEN /\ idx' = idx + 1
            /\ UNCHANGED <<pc, err>>
       ELSE /\ err' = "NameError"
            /\ pc' = "error"
            /\ UNCHANGED idx
    /\ UNCHANGED <<args, caller, requests, inflight, anchors, found, pages, printed>>
    /\ UNCHANGED canonVars /\ UNCHANGED dedupVars

\* lines 81-91 and 115: the loop is over; dedup, return to main
DiscoverReturn ==
    /\ pc = "loop" /\ idx > Len(anchors)
    /\ pages' = Dedup(found)
    /\ pc' = "pages"
    /\ UNCHANGED <<args, caller, requests, inflight, anchors, idx, found, printed, err>>
    /\ UNCHANGED canonVars /\ UNCHANGED dedupVars

\* lines 116-119: print pages[:5], then fetch pages[0][2] if there is one
MainPages ==
    /\ pc = "pages"
    /\ printed' = Take(pages, PrintLimit)
    /\ IF pages # <<>>
       THEN /\ requests' = Append(requests, pages[1][3])
            /\ inflight' = inflight + 1
            /\ caller' = "first"
            /\ pc' = "get"
       ELSE /\ pc' = "done"
            /\ UNCHANGED <<requests, inflight, caller>>
    /\ UNCHANGED <<args, anchors, idx, found, pages, err>>
    /\ UNCHANGED canonVars /\ UNCHANGED dedupVars

Next ==
    \/ Main
    \/ GetSoupOk
    \/ GetSoupFail
    \/ DiscoverAnchor
    \/ DiscoverReturn
    \/ MainPages

Spec == Init /\ [][Next]_vars

-----------------------------------------------------------------------------
(* Properties of canonicalize_url and of the classification (SpecCanon) *)

Called == cstep \in {"called", "resubmitted"}

S_special_marker ==
    <<"U","n","i","t","e","d","_","S","t","a","t","e","s","_","S","e","n","a","t","e","_","s","p","e","c","i","a","l","_","e","l","e","c","t","i","o","n","_","i","n","_">>

\* the href carries a denylist marker somewhere, compared case-insensitively
HasDenyMarker(href) == \E x \in DENYLIST : Contains(Lower(href), x)

\* the href starts with a URL scheme: ALPHA *(ALPHA / DIGIT / "+" / "-" / ".") ":"
HasUrlScheme(href) ==
    \E i \in 2..Len(href) :
        /\ href[i] = ":"
        /\ IsAlpha(href[1])
        /\ \A k \in 1..(i - 1) : href[k] \in scheme_chars

\* the path ends with a year segment: "_" and four digits
HasTrailingYear(p) ==
    /\ Len(p) >= 5
    /\ p[Len(p) - 4] = "_"
    /\ \A k \in (Len(p) - 3)..Len(p) : IsDigit(p[k])

TrailingYear(p) == SubSeq(p, Len(p) - 3, Len(p))

\* C1 (as claimed): an href that contains a denylist marker anywhere, its
\* query string and fragment included, is rejected.
C1_DenylistAnywhere == (Called /\ HasDenyMarker(u)) => out.isNone

\* C2 (as claimed): an href that does not start with a URL scheme is accepted
\* only if it starts with a single "/" (and is then resolved against BASE);
\* "//..." hrefs and bare text are rejected.
C2_SchemeRule ==
    (Called /\ ~HasUrlScheme(u) /\ ~out.isNone) =>
        /\ StartsWith(u, <<"/">>)
        /\ ~StartsWith(u, <<"/", "/">>)
        /\ StartsWith(out.str, BASE)

\* C3 (as claimed): every URL canonicalize_url returns has scheme http or
\* https, no query, no fragment, and a path the canonical pattern matches.
C3_CanonicalURL ==
    (Called /\ ~out.isNone) =>
        LET p == urlsplit(out.str)
        IN  /\ p.scheme \in {S_http, S_https}
            /\ p.query = <<>> /\ p.fragment = <<>>
            /\ ~Contains(out.str, <<"?">>) /\ ~Contains(out.str, <<"#">>)
            /\ CANON_STATE_URL(p.path)

C7_RaceLabel ==
    race # "unset" =>
        race = IF Contains(out.str, S_special_marker)
               THEN "U.S. Senate (special)"
               ELSE "U.S. Senate (regular)"

-----------------------------------------------------------------------------
(* Properties of the dedup pass (SpecDedup) *)

\* the positions of f that hold the first triple of their (state, race) key
FirstOfKey(f) ==
    {j \in 1..Len(f) :
        \A l \in 1..(j - 1) : ~(f[l][1] = f[j][1] /\ f[l][2] = f[j][2])}

\* the n-th smallest member of a set of positions
NthOf(I, n) == CHOOSE j \in I : Cardinality({l \in I : l < j}) = n - 1

\* C8: the list returned is the subsequence of found that keeps exactly the
\* first triple of each (state, race) key, in the original order: no two
\* returned entries share a key, every key of found appears, and an empty
\* found gives an empty list.
C8_DedupStable ==
    dstep = "returned" =>
        /\ Len(dret) = Cardinality(FirstOfKey(dfound))
        /\ \A n \in 1..Len(dret) : dret[n] = dfound[NthOf(FirstOfKey(dfound), n)]
        /\ \A m, n \in 1..Len(dret) :
               (dret[m][1] = dret[n][1] /\ dret[m][2] = dret[n][2]) => m = n
        /\ \A j \in 1..Len(dfound) :
               \E n \in 1..Len(dret) :
                   dret[n][1] = dfound[j][1] /\ dret[n][2] = dfound[j][2]
        /\ dfound = <<>> => dret = <<>>

\* C8 witness: found = [A, B, A', C], A and A' sharing a key, gave [A, B, C].
C8_Witness ==
    /\ dstep = "returned"
    /\ dfound = << <<"Ohio", "U.S. Senate", "url1">>,
                   <<"Oklahoma", "U.S. Senate (special)", "url1">>,
                   <<"Ohio", "U.S. Senate", "url2">>,
                   <<"Ohio", "U.S. Senate (special)", "url1">> >>
    /\ dret = << <<"Ohio", "U.S. Senate", "url1">>,
                 <<"Oklahoma", "U.S. Senate (special)", "url1">>,
                 <<"Ohio", "U.S. Senate (special)", "url1">> >>

-----------------------------------------------------------------------------
(* Properties of a run of main (Spec) *)

S_Unknown == <<"U","n","k","n","o","w","n">>

\* the state name the triple of an accepted anchor is to carry
ClaimedStateName(full, text, year) ==
    IF ~StateMatch(full, year).isNone
    THEN UnderscoresToSpaces(StateMatch(full, year).str)
    ELSE IF nws(text) # <<>> THEN nws(text) ELSE S_Unknown

\* discover_state_pages has returned to main
DiscoverReturned ==
    pc = "pages" \/ caller = "first" \/ (pc = "done" /\ caller = "discover")

\* C6 (as claimed): discover_state_pages completes normally, and for each
\* anchor whose href is accepted it produces a triple whose state name is the
\* URL segment between "_in_" and ",_<year>" with underscores replaced by
\* spaces (else the normalized anchor text, else "Unknown"); an overview with
\* an accepted link gives a non-empty result.
C6_StateName ==
    /\ err # "NameError"
    /\ DiscoverReturned =>
         \A k \in 1..Len(anchors) :
            LET full == canonicalize_url(anchors[k].href, args.year, lib)
            IN  ~full.isNone =>
                  /\ pages # <<>>
                  /\ \E n \in 1..Len(found) :
                        /\ found[n][3] = full.str
                        /\ found[n][1] =
                             ClaimedStateName(full.str, anchors[k].text, args.year)

\* what C9 says of a run, `given` telling whether --state-url counts as given
C9_Body(given) ==
    /\ given =>
         /\ Len(requests) <= 1
         /\ \A n \in 1..Len(requests) : requests[n] = args.state_url.str
         /\ pc # "start" => Len(requests) = 1
         /\ caller \in {"none", "direct"}
         /\ pc \in {"start", "get", "done", "error"}
    /\ ~given =>
         /\ pc # "start" =>
              (requests # <<>> /\ requests[1] = OverviewUrl(args.year))
         /\ Len(printed) <= 5
         /\ printed = SubSeq(pages, 1, Len(printed))
         /\ Len(requests) <= 2
         /\ Len(requests) = 2 => (pages # <<>> /\ requests[2] = pages[1][3])
         /\ pc = "done" =>
              /\ err = "none"
              /\ (Len(pages) <= 5 => printed = pages)
              /\ (pages # <<>> => Len(requests) = 2)

\* C9 (as claimed): whenever --state-url is given, exactly one fetch is
\* issued, for that URL, and discovery is not run; otherwise the overview is
\* fetched first, at most 5 entries are printed, and a state page - that of
\* the first entry - is fetched afterwards iff the result is non-empty.
C9_AnyStateUrl == C9_Body(~args.state_url.isNone)

\* C9 (amended): the same, with "given" meaning given with a non-empty
\* value; a run with --state-url "" is a discovery run.
C9_Sequencing == C9_Body(~args.state_url.isNone /\ args.state_url.str # <<>>)

\* C9 witness: --state-url "" ran discovery, which found nothing, and the run
\* ended with the overview as its only fetch.
C9_Witness ==
    /\ pc = "done" /\ err = "none"
    /\ args.state_url = Some(<<>>)
    /\ requests = <<OverviewUrl(args.year)>>
    /\ pages = <<>>

NoDuplicates(s) == \A m, n \in 1..Len(s) : s[m] = s[n] => m = n

\* C10: a failed fetch ends the run in the error state and nothing happens
\* afterwards, in particular no further request; no URL is requested twice
\* and at most one request is in flight.
C10_FatalNoRetry ==
    /\ [](/\ inflight \in {0, 1}
          /\ NoDuplicates(requests)
          /\ err = "HTTPError" => (pc = "error" /\ inflight = 0))
    /\ [][err = "HTTPError" => FALSE]_vars

\* C10 witness: the only request of a run failed and the run is over.
C10_Witness ==
    /\ err = "HTTPError" /\ pc = "error"
    /\ Len(requests) = 1 /\ inflight = 0

====
